---- MODULE Spec2Model ----
(***************************************************************************)
(* Transaction lifecycle of Web3Client (src/web3_module/client.py):        *)
(* the approval gate, the fee calculator, the unit conversions and the     *)
(* sign / broadcast / poll-for-receipt loop of send_transaction.           *)
(*                                                                         *)
(* Spec      the approval gate and the confirmation poll loop              *)
(* LiveSpec  Spec with the fairness the asyncio event loop gives           *)
(* FeeSpec   get_priority_fee and prepare_transaction on sampled inputs    *)
(* ConvSpec  to_wei / from_wei on sampled inputs                           *)
(*                                                                         *)
(* Exchange client (src/cex/bitget_client.py) and pipeline (src/main.py,   *)
(* src/web3_module/defi/odos_client.py):                                   *)
(*                                                                         *)
(* ExchangeSpec  _generate_signature, _parse_params_to_str, withdraw and   *)
(*               get_withdrawal_history on sampled inputs                  *)
(* PipeSpec      main step by step, OdosClient.swap, and the poll loop of  *)
(*               the deposit send                                          *)
(***************************************************************************)
EXTENDS Integers, Sequences, FiniteSets, TLC

VARIABLES
    pc,            \* position of the client coroutine: idle | polling | sleeping | done
    op,            \* the public method that was called
    result,        \* what the called method returned or raised
    tx,            \* the transaction handed to send_transaction
    total_time,    \* send_transaction's local total_time
    poll_latency,  \* send_transaction's parameter poll_latency
    timeout,       \* send_transaction's parameter timeout
    gate,          \* the inputs of the last check_for_approved call
    obs,           \* observation counters of the current call (not program state)
    last,          \* the receipt answer on which the poll loop ended ("none" before)
    fee,           \* FeeSpec: inputs and outputs of the fee calculator
    conv,          \* ConvSpec: inputs and outputs of the unit conversions
    req,           \* ExchangeSpec: inputs and outputs of the exchange client
    pipe           \* PipeSpec: the position and the record of the pipeline (main)

vars == <<pc, op, result, tx, total_time, poll_latency, timeout, gate, obs, last,
          fee, conv, req, pipe>>

clientVars == <<pc, op, result, tx, total_time, poll_latency, timeout, gate, obs, last>>

-----------------------------------------------------------------------------
(* Bounds of the model *)

\* allowances and required amounts range over 0..MaxAmount
MaxAmount == 3
\* the observation counters saturate at MaxCount
MaxCount == 41
\* the node answers a receipt lookup with an unexpected exception at most MaxExc times a call
MaxExc == 3
\* priority-fee samples range over 0..MaxSample, base fees and gas prices over 0..MaxBaseFee
MaxSample == 3
MaxBaseFee == 3
\* nonces and transaction values range over 0..MaxNonce
MaxNonce == 1
\* amounts handed to the unit conversions have coefficients 0..MaxCoef
MaxCoef == 25

(* Program constants *)

\* send_transaction(poll_latency = 10, timeout = 360)
DefaultPollLatency == 10
DefaultTimeout == 360

\* the (poll_latency, timeout) pairs send_transaction is called with
PollSettings == { <<DefaultPollLatency, DefaultTimeout>>, <<25, 60>>, <<7, 0>> }

Min(a, b) == IF a <= b THEN a ELSE b

Bump(n) == Min(n + 1, MaxCount)

-----------------------------------------------------------------------------
(* Values *)

NoResult == [kind |-> "none", val |-> "None", exc |-> "none", msg |-> <<>>, line |-> 0]

Return(v) == [kind |-> "return", val |-> v, exc |-> "none", msg |-> <<>>, line |-> 0]

Raise(e, m, l) == [kind |-> "raise", val |-> "None", exc |-> e, msg |-> m, line |-> l]

NoAmount == [max_uint256 |-> FALSE, wei |-> 0]

NoTx == [kind |-> "none", amount |-> NoAmount]

NoGate == [called |-> FALSE, approved |-> 0, amount |-> 0]

NoObs == [built |-> 0, signed |-> 0, broadcast |-> 0, settle |-> 0,
          lookups |-> 0, sleeps |-> 0, nNotFound |-> 0, nUnset |-> 0, nExc |-> 0]

NoLast == "none"

NoFee == [called |-> "none", in |-> <<>>, out |-> <<>>]

NoDec == [coef |-> 0, exp |-> 0]

NoConv == [called |-> "none", x |-> NoDec, decimals |-> 0,
           out |-> [kind |-> "none", val |-> NoDec]]

NoReq == [called |-> "none", in |-> <<>>, out |-> <<>>, field |-> "none",
          in2 |-> <<>>, out2 |-> <<>>]

\* what was signed by send_transaction: the fields a claim is about
NoSigned == [nonce |-> 0, value |-> NoDec, to |-> "none"]

NoPipe == [entry |-> "none", pc |-> "start", steps |-> <<>>, ok |-> TRUE,
           failed |-> "none", result |-> NoResult, posts |-> 0, swap_broadcast |-> 0,
           input |-> "none", gate |-> "none",
           usdc |-> NoDec, amount |-> 0,
           wei_balance |-> NoDec, eth_balance |-> NoDec, eth_to_send |-> NoDec,
           nonce_reads |-> 0, nonce |-> 0, signed |-> NoSigned]

\* f"Transaction failed: {self.explorer}/tx/{tx_hash}": the text and the explorer URL
ExplorerUrl == "explorer/tx/tx_hash"

TransactionFailedMsg == <<"Transaction failed", ExplorerUrl>>

\* str(e) of a BlockchainException is the message it was built with
BlockchainExceptionStr(m) == m

ContainsTransactionFailed_Case(m) == \E i \in 1..Len(m) : m[i] = "Transaction Failed"

\* "Transaction failed" in str(e)
ContainsTransactionFailed(m) == \E i \in 1..Len(m) : m[i] = "Transaction failed"

-----------------------------------------------------------------------------
(* check_for_approved and make_approve *)

AllowanceSufficient_Strict(approved, amount) == approved > amount

\* if approved_amount_in_wei >= amount_in_wei
AllowanceSufficient(approved, amount) == approved >= amount

\* def make_approve(self, token_address, spender_address, amount_in_wei, unlimited_approve)
MakeApproveParams == {"token_address", "spender_address", "amount_in_wei", "unlimited_approve"}

\* the arguments of the call `await self.make_approve()`
MakeApproveCallArgs == {}

\* Python binds a call when every parameter without a default gets an argument
\* and no argument is unknown; otherwise the call raises TypeError
CallBinds(required, accepted, given) == required \subseteq given /\ given \subseteq accepted

\* amount = 2**256-1 if unlimited_approve else amount_in_wei
ApproveAmount(unlimited, amount) ==
    IF unlimited THEN [max_uint256 |-> TRUE, wei |-> 0] ELSE [max_uint256 |-> FALSE, wei |-> amount]

\* the called method ends at once with outcome res; o are the observations
Finish(who, res, o) ==
    /\ pc' = "done"
    /\ op' = who
    /\ result' = res
    /\ tx' = NoTx
    /\ obs' = o
    /\ last' = NoLast
    /\ total_time' = 0
    /\ UNCHANGED <<poll_latency, timeout>>

\* sign_transaction + send_raw_transaction of send_transaction, entered with
\* transaction t; sendOk is whether signing and broadcasting succeed
Submit(t, who, setting, sendOk, o) ==
    /\ op' = who
    /\ tx' = t
    /\ poll_latency' = setting[1]
    /\ timeout' = setting[2]
    /\ total_time' = 0
    /\ last' = NoLast
    /\ IF sendOk
       THEN /\ pc' = "polling"
            /\ result' = NoResult
            /\ obs' = [o EXCEPT !.signed = 1, !.broadcast = 1]
       ELSE \* except Exception as e: raise BlockchainException(f"{e}")
            /\ pc' = "done"
            /\ result' = Raise("BlockchainException", <<"rpc error">>, 167)
            /\ obs' = [o EXCEPT !.signed = 1]

\* make_approve: prepare_transaction, build_transaction, send_transaction
Approve(who, amount, unlimited, prepOk, sendOk) ==
    IF prepOk
    THEN Submit([kind |-> "approve", amount |-> ApproveAmount(unlimited, amount)],
                who, <<DefaultPollLatency, DefaultTimeout>>, sendOk,
                [NoObs EXCEPT !.built = 1])
    ELSE Finish(who, Raise("BlockchainException", <<"rpc error">>, 149), NoObs)

\* the body of check_for_approved; rpcOk is whether symbol() and allowance() answer
CheckForApprovedCall(approved, amount, unlimited, rpcOk, prepOk, sendOk) ==
    /\ IF ~rpcOk
       THEN \* except Exception as e: raise BlockchainException(f"{e}")
            /\ gate' = NoGate
            /\ Finish("check_for_approved",
                      Raise("BlockchainException", <<"rpc error">>, 114), NoObs)
       ELSE /\ gate' = [called |-> TRUE, approved |-> approved, amount |-> amount]
            /\ IF AllowanceSufficient(approved, amount)
               THEN Finish("check_for_approved", Return("False"), NoObs)
               ELSE IF CallBinds(MakeApproveParams, MakeApproveParams, MakeApproveCallArgs)
                    THEN Approve("check_for_approved", amount, unlimited, prepOk, sendOk)
                    ELSE \* TypeError at the call, wrapped by except Exception
                         Finish("check_for_approved",
                                Raise("BlockchainException",
                                      <<"make_approve() missing 4 required positional arguments">>,
                                      114),
                                NoObs)

\* a direct call of check_for_approved
CheckForApproved(approved, amount, unlimited, rpcOk, prepOk, sendOk) ==
    /\ pc = "idle"
    /\ UNCHANGED <<fee, conv, req, pipe>>
    /\ CheckForApprovedCall(approved, amount, unlimited, rpcOk, prepOk, sendOk)

\* a direct call of make_approve with its four arguments
MakeApprove(amount, unlimited, prepOk, sendOk) ==
    /\ pc = "idle"
    /\ gate' = NoGate
    /\ UNCHANGED <<fee, conv, req, pipe>>
    /\ Approve("make_approve", amount, unlimited, prepOk, sendOk)

\* a direct call of send_transaction(transaction, poll_latency, timeout)
SendTransaction(setting, sendOk) ==
    /\ pc = "idle"
    /\ gate' = NoGate
    /\ UNCHANGED <<fee, conv, req, pipe>>
    /\ Submit([kind |-> "transfer", amount |-> NoAmount], "send_transaction",
              setting, sendOk, NoObs)

-----------------------------------------------------------------------------
(* The poll loop of send_transaction *)

\* what get_transaction_receipt can answer
ReceiptAnswers == {"not_found", "status_none", "status_1", "status_0",
                   "exception", "exception_tx_failed"}

\* the body of the try block for one answer: return, sleep, or raise
TryBody(answer) ==
    CASE answer = "status_1"    -> [do |-> "return", exc |-> "none", msg |-> <<>>]
      [] answer = "status_none" -> [do |-> "sleep", exc |-> "none", msg |-> <<>>]
      [] answer = "status_0"    -> [do |-> "raise", exc |-> "BlockchainException",
                                    msg |-> BlockchainExceptionStr(TransactionFailedMsg)]
      [] answer = "not_found"   -> [do |-> "raise", exc |-> "TransactionNotFound",
                                    msg |-> <<"not found">>]
      [] answer = "exception"   -> [do |-> "raise", exc |-> "Exception",
                                    msg |-> <<"connection error">>]
      [] OTHER                  -> [do |-> "raise", exc |-> "Exception",
                                    msg |-> <<"Transaction failed", "said the node">>]

\* if total_time > timeout
TimedOut(total, tmo) == total > tmo

Elapse_Double(total, latency) == total + 2 * latency

Elapse_Forgotten(total, latency) == total

\* total_time += poll_latency
Elapse(total, latency) == total + latency

\* the except clauses: what one loop iteration does after the try body did t.
\* [do, line, total]: the step, the line of a raise, and total_time afterwards
Handle(t, total, latency, tmo) ==
    IF t.do # "raise"
    THEN [do |-> t.do, line |-> 0, total |-> total]
    ELSE IF t.exc = "TransactionNotFound"
         THEN IF TimedOut(total, tmo)
              THEN [do |-> "raise", line |-> 184, total |-> total]
              ELSE [do |-> "sleep", line |-> 0, total |-> Elapse(total, latency)]
         ELSE IF ContainsTransactionFailed(t.msg)
              THEN [do |-> "raise", line |-> 189, total |-> total]
              ELSE [do |-> "sleep", line |-> 0, total |-> Elapse(total, latency)]

SwapExcept_Swallow(res) == Return("None")

\* the except clause of OdosClient.swap around prepare_transaction and
\* send_transaction: an exception is raised again, as RuntimeError when its text
\* has "transfer amount exceeds balance"
SwapExcept(res) ==
    IF res.kind # "raise" THEN res
    ELSE IF \E i \in 1..Len(res.msg) : res.msg[i] = "transfer amount exceeds balance"
         THEN Raise("RuntimeError", <<"Insufficient balance for swap on ODOS">>, 87)
         ELSE res

\* how the method that called send_transaction passes its outcome on:
\* make_approve returns it; check_for_approved takes the settle delay and returns
\* it, or wraps an exception in BlockchainException (line 114); swap returns it
\* or raises through its except clause; main lets an exception pass
PassOn(who, res) ==
    IF who = "check_for_approved" /\ res.kind = "raise"
    THEN Raise("BlockchainException", res.msg, 114)
    ELSE IF who = "swap" THEN SwapExcept(res)
    ELSE res

Count_Resend(o, answer) ==
    [o EXCEPT !.lookups = Bump(@),
              !.signed = IF answer = "not_found" THEN Bump(@) ELSE @,
              !.broadcast = IF answer = "not_found" THEN Bump(@) ELSE @,
              !.nNotFound = IF answer = "not_found" THEN Bump(@) ELSE @,
              !.nUnset = IF answer = "status_none" THEN Bump(@) ELSE @,
              !.nExc = IF answer = "exception" THEN Bump(@) ELSE @]

\* what one iteration of the loop adds to the observations: a receipt lookup,
\* counted by its answer; nothing is signed and nothing is broadcast
Count(o, answer) ==
    [o EXCEPT !.lookups = Bump(@),
              !.nNotFound = IF answer = "not_found" THEN Bump(@) ELSE @,
              !.nUnset = IF answer = "status_none" THEN Bump(@) ELSE @,
              !.nExc = IF answer = "exception" THEN Bump(@) ELSE @]

\* one iteration of `while True`: the receipt lookup and the branch taken on it
GetReceipt(answer) ==
    /\ pc = "polling"
    /\ answer = "exception" => obs.nExc < MaxExc
    /\ LET h == Handle(TryBody(answer), total_time, poll_latency, timeout)
       IN  /\ total_time' = h.total
           /\ last' = IF h.do = "sleep" THEN NoLast ELSE answer
           /\ CASE h.do = "return" ->
                     /\ pc' = "done"
                     /\ result' = PassOn(op, Return("True"))
                     /\ obs' = [Count(obs, answer) EXCEPT
                                  !.settle = IF op = "check_for_approved" THEN 1 ELSE @]
                [] h.do = "raise" ->
                     /\ pc' = "done"
                     /\ result' = PassOn(op, Raise("BlockchainException",
                                                   TransactionFailedMsg, h.line))
                     /\ obs' = Count(obs, answer)
                [] OTHER ->
                     /\ pc' = "sleeping"
                     /\ result' = result
                     /\ obs' = Count(obs, answer)
    /\ UNCHANGED <<op, tx, poll_latency, timeout, gate, fee, conv, req, pipe>>

\* await asyncio.sleep(poll_latency), then the next iteration
Sleep ==
    /\ pc = "sleeping"
    /\ pc' = "polling"
    /\ obs' = [obs EXCEPT !.sleeps = Bump(@)]
    /\ UNCHANGED <<op, result, tx, total_time, poll_latency, timeout, gate, last, fee, conv,
                   req, pipe>>

-----------------------------------------------------------------------------
(* The approval gate and the poll loop *)

Init ==
    /\ pc = "idle"
    /\ op = "none"
    /\ result = NoResult
    /\ tx = NoTx
    /\ total_time = 0
    /\ poll_latency = DefaultPollLatency
    /\ timeout = DefaultTimeout
    /\ gate = NoGate
    /\ obs = NoObs
    /\ last = NoLast
    /\ fee = NoFee
    /\ conv = NoConv
    /\ req = NoReq
    /\ pipe = NoPipe

Next ==
    \/ /\ pc = "idle"
       /\ \E approved \in 0..MaxAmount, amount \in 0..MaxAmount,
             unlimited \in BOOLEAN, rpcOk \in BOOLEAN, prepOk \in BOOLEAN, sendOk \in BOOLEAN :
             CheckForApproved(approved, amount, unlimited, rpcOk, prepOk, sendOk)
    \/ /\ pc = "idle"
       /\ \E amount \in 0..MaxAmount, unlimited \in BOOLEAN, prepOk \in BOOLEAN, sendOk \in BOOLEAN :
             MakeApprove(amount, unlimited, prepOk, sendOk)
    \/ /\ pc = "idle"
       /\ \E setting \in PollSettings, sendOk \in BOOLEAN : SendTransaction(setting, sendOk)
    \/ \E answer \in ReceiptAnswers : GetReceipt(answer)
    \/ Sleep

Spec == Init /\ [][Next]_vars

\* the event loop resumes the coroutine when the RPC call answers and when the
\* sleep timer fires
LiveSpec == Spec /\ WF_vars(\E answer \in ReceiptAnswers : GetReceipt(answer)) /\ WF_vars(Sleep)

-----------------------------------------------------------------------------
(* The fee calculator: get_priority_fee and prepare_transaction *)

\* fee_history(block_count = 5, ...): one reward sample per block
BlockCount == 5

\* GAS_PRICE_MULTIPLIER of the settings, as numerator and denominator
Multipliers == { <<1, 2>>, <<1, 1>>, <<13, 10>> }

Max(a, b) == IF a >= b THEN a ELSE b

RECURSIVE SumSeq(_)
SumSeq(q) == IF q = <<>> THEN 0 ELSE Head(q) + SumSeq(Tail(q))

IsNonZero(f) == f # 0

\* [fee[0] for fee in fee_history['reward'] if fee[0] != 0]
NonEmptyBlockPriorityFees(reward) == SelectSeq(reward, IsNonZero)

DivisorPriority_AllBlocks(fees, reward) == Len(reward)

\* divisor_priority = max(len(non_empty_block_priority_fees), 1)
DivisorPriority(fees, reward) == Max(Len(fees), 1)

\* round(n / d, 0) of Python 3: to the nearest integer, a tie to the even one
RoundHalfEven(n, d) ==
    LET q == n \div d
        r == n % d
    IN  IF 2 * r < d THEN q
        ELSE IF 2 * r > d THEN q + 1
        ELSE IF q % 2 = 0 THEN q ELSE q + 1

\* get_priority_fee on the reward samples of the fee history
GetPriorityFee(reward) ==
    LET fees == NonEmptyBlockPriorityFees(reward)
    IN  RoundHalfEven(SumSeq(fees), DivisorPriority(fees, reward))

\* int(x) of a non-negative quotient n / d: the fraction is cut off
IntTrunc(n, d) == n \div d

MaxFeePerGas_NoMultiplier(base, priority, mult) == IntTrunc(base * 20 + priority * 21, 20)

\* int(base_fee + max_priority_fee_per_gas * 1.05 * GAS_PRICE_MULTIPLIER);
\* on the model's ranges the exact quotient and the float product agree
MaxFeePerGas(base, priority, mult) ==
    IntTrunc(base * 20 * mult[2] + priority * 21 * mult[1], 20 * mult[2])

ClampPriority_Off(priority, maxFee) == priority

\* if max_priority_fee_per_gas > max_fee_per_gas:
\*     max_priority_fee_per_gas = int(max_fee_per_gas * 0.95)
ClampPriority(priority, maxFee) ==
    IF priority > maxFee THEN IntTrunc(maxFee * 19, 20) ELSE priority

\* int(gas_price * 1.2 * GAS_PRICE_MULTIPLIER)
LegacyGasPrice(gasPrice, mult) == IntTrunc(gasPrice * 6 * mult[1], 5 * mult[2])

\* Arbitrum's chain_id
ChainId == 42161

\* the record prepare_transaction returns
TxParams(eip1559, nonce, value, base, reward, mult) ==
    IF eip1559
    THEN LET priority == GetPriorityFee(reward)
             maxFee == MaxFeePerGas(base, priority, mult)
         IN  [chainId |-> ChainId, nonce |-> nonce, value |-> value,
              maxFeePerGas |-> maxFee,
              maxPriorityFeePerGas |-> ClampPriority(priority, maxFee),
              type |-> 2]
    ELSE [chainId |-> ChainId, nonce |-> nonce, value |-> value,
          gasPrice |-> LegacyGasPrice(base, mult), type |-> 1]

Rewards == [1..BlockCount -> 0..MaxSample]

\* a call of get_priority_fee; the node answers fee_history with reward
CallGetPriorityFee(reward) ==
    /\ fee.called = "none"
    /\ fee' = [called |-> "get_priority_fee", in |-> [reward |-> reward],
               out |-> GetPriorityFee(reward)]
    /\ UNCHANGED <<clientVars, conv, req, pipe>>

\* a call of prepare_transaction(value) on an EIP-1559 network
CallPrepareTransaction(nonce, value, base, reward, mult) ==
    /\ fee.called = "none"
    /\ fee' = [called |-> "prepare_transaction",
               in |-> [eip1559_support |-> TRUE, value |-> value, base_fee |-> base,
                       reward |-> reward, multiplier |-> mult],
               out |-> TxParams(TRUE, nonce, value, base, reward, mult)]
    /\ UNCHANGED <<clientVars, conv, req, pipe>>

\* a call of prepare_transaction(value) on a network without EIP-1559
CallPrepareLegacy(nonce, value, gasPrice, mult) ==
    /\ fee.called = "none"
    /\ fee' = [called |-> "prepare_transaction",
               in |-> [eip1559_support |-> FALSE, value |-> value, base_fee |-> gasPrice,
                       reward |-> <<>>, multiplier |-> mult],
               out |-> TxParams(FALSE, nonce, value, gasPrice, <<>>, mult)]
    /\ UNCHANGED <<clientVars, conv, req, pipe>>

\* one call in a run (the guard of each call is read before its inputs are drawn)
FeeNext ==
    \/ /\ fee.called = "none"
       /\ \E reward \in Rewards : CallGetPriorityFee(reward)
    \/ /\ fee.called = "none"
       /\ \E nonce \in 0..MaxNonce, value \in 0..MaxNonce, base \in 0..MaxBaseFee,
             reward \in Rewards, mult \in Multipliers :
             CallPrepareTransaction(nonce, value, base, reward, mult)
    \/ /\ fee.called = "none"
       /\ \E nonce \in 0..MaxNonce, value \in 0..MaxNonce, gasPrice \in 0..MaxBaseFee,
             mult \in Multipliers :
             CallPrepareLegacy(nonce, value, gasPrice, mult)

FeeSpec == Init /\ [][FeeNext]_vars

-----------------------------------------------------------------------------
(* The unit conversions: to_wei and from_wei *)

\* An amount is a decimal number coef * 10^exp, as Python's Decimal holds it:
\* a smallest-unit integer has exp >= 0, a human-scale amount may have exp < 0.

\* the unit_name table of to_wei and from_wei
UnitNames == {18, 6}

UnitName(decimals) == IF decimals = 18 THEN "ether" ELSE "mwei"

\* web3's units: 1 ether = 10^18 wei, 1 mwei = 10^6 wei
UnitExp(unit) == IF unit = "ether" THEN 18 ELSE 6

Value(v) == [kind |-> "value", val |-> v]

KeyError == [kind |-> "KeyError", val |-> NoDec]

\* coef with its last n decimal digits cut off
RECURSIVE DropDigits(_, _)
DropDigits(coef, n) == IF n = 0 \/ coef = 0 THEN coef ELSE DropDigits(coef \div 10, n - 1)

\* int(number): the integer part of a non-negative decimal
PyInt(number) ==
    IF number.exp >= 0 THEN number
    ELSE [coef |-> DropDigits(number.coef, -number.exp), exp |-> 0]

\* the same number with no trailing zero in its coefficient
RECURSIVE Normalize(_)
Normalize(v) ==
    IF v.coef = 0 THEN NoDec
    ELSE IF v.coef % 10 = 0 THEN Normalize([coef |-> v.coef \div 10, exp |-> v.exp + 1])
    ELSE v

\* from_wei: w3.from_wei(number, unit) divides by the unit exactly
FromWei(number, decimals) ==
    IF decimals \notin UnitNames THEN KeyError
    ELSE Value(Normalize([coef |-> number.coef,
                          exp |-> number.exp - UnitExp(UnitName(decimals))]))

\* to_wei: w3.to_wei(number = int(number), unit) multiplies by the unit
ToWei(number, decimals) ==
    IF decimals \notin UnitNames THEN KeyError
    ELSE Value(Normalize([coef |-> PyInt(number).coef,
                          exp |-> PyInt(number).exp + UnitExp(UnitName(decimals))]))

\* the decimal counts the conversions are called with
DecimalCounts == {0, 6, 8, 18}

\* smallest-unit integers coef * 10^exp
WeiAmounts == { Normalize([coef |-> c, exp |-> e]) : c \in 0..MaxCoef, e \in {0, 5, 6, 17, 18} }

\* human-scale amounts coef * 10^exp
HumanAmounts == { Normalize([coef |-> c, exp |-> e]) : c \in 0..MaxCoef, e \in {-3, -1, 0} }

\* a call of from_wei(x, decimals)
CallFromWei(x, decimals) ==
    /\ conv.called = "none"
    /\ conv' = [called |-> "from_wei", x |-> x, decimals |-> decimals,
                out |-> FromWei(x, decimals)]
    /\ UNCHANGED <<clientVars, fee, req, pipe>>

\* a call of to_wei(number, decimals)
CallToWei(number, decimals) ==
    /\ conv.called = "none"
    /\ conv' = [called |-> "to_wei", x |-> number, decimals |-> decimals,
                out |-> ToWei(number, decimals)]
    /\ UNCHANGED <<clientVars, fee, req, pipe>>

\* to_wei(from_wei(x, decimals), decimals): to_wei of the amount from_wei returned
CallToWeiBack ==
    /\ conv.called = "from_wei"
    /\ conv.out.kind = "value"
    /\ conv' = [conv EXCEPT !.called = "to_wei(from_wei)",
                            !.out = ToWei(conv.out.val, conv.decimals)]
    /\ UNCHANGED <<clientVars, fee, req, pipe>>

ConvNext ==
    \/ /\ conv.called = "none"
       /\ \E x \in WeiAmounts, decimals \in DecimalCounts : CallFromWei(x, decimals)
    \/ /\ conv.called = "none"
       /\ \E number \in HumanAmounts, decimals \in DecimalCounts : CallToWei(number, decimals)
    \/ CallToWeiBack

ConvSpec == Init /\ [][ConvNext]_vars

-----------------------------------------------------------------------------
(* The exchange client: _generate_signature, _parse_params_to_str, withdraw *)

\* A text is a sequence of one-character strings, one per byte.

\* the bytes the sampled texts are made of
Bytes == {"1", "2", "G", "g", "E", "T", "/", "a"}

UpperChar_Identity(c) == c

\* str.upper on one character of the sampled texts
UpperChar(c) ==
    CASE c = "g" -> "G"
      [] c = "a" -> "A"
      [] OTHER   -> c

\* str.upper(method)
Upper(s) == [i \in DOMAIN s |-> UpperChar(s[i])]

Quote(s) == <<"\"">> \o s \o <<"\"">>

\* the items of a dict as json.dumps writes them: "key": "value", separated by ", "
RECURSIVE JsonItems(_)
JsonItems(items) ==
    IF items = <<>> THEN <<>>
    ELSE Quote(Head(items)[1]) \o <<":", " ">> \o Quote(Head(items)[2])
         \o (IF Len(items) > 1 THEN <<",", " ">> ELSE <<>>)
         \o JsonItems(Tail(items))

\* json.dumps(data) of a dict of texts, given as the sequence of its items
JsonDumps(data) == <<"{">> \o JsonItems(data) \o <<"}">>

\* hmac.new(key, message, hashlib.sha256).digest(): the digest is kept symbolic,
\* equal digests only for equal key and message (HMAC-SHA256 taken as collision-free)
HmacSha256(key, message) == [alg |-> "hmac-sha256", key |-> key, message |-> message]

\* base64.b64encode(digest).decode('utf-8'): an injective encoding
Base64(digest) == [base64 |-> digest]

\* self.api_secret
ApiSecret == "api_secret"

\* _generate_signature; data = <<>> stands for None and for an empty dict.
\* The canonical message is returned with the signature.
GenerateSignature(request_path, method, timestamp, data) ==
    LET body == IF data = <<>> THEN <<>> ELSE JsonDumps(data)
        message == timestamp \o Upper(method) \o request_path \o body
    IN  [message |-> message, signature |-> Base64(HmacSha256(ApiSecret, message))]

\* the sampled arguments of _generate_signature
Timestamps == { <<"1">>, <<"1", "2">> }

Methods == { <<"G", "E", "T">>, <<"g", "E", "T">> }

Paths == { <<"/">>, <<"/", "a">> }

Payloads == { <<>>, << <<(<<"a">>), (<<"1">>)>> >> }

\* the texts that differ from s in exactly one byte
Changed(s) ==
    { [s EXCEPT ![q[1]] = q[2]] : q \in { r \in (DOMAIN s) \X Bytes : r[2] # s[r[1]] } }

\* the payloads that differ from data in exactly one byte of one key or one value
ChangedData(data) ==
    UNION { { [data EXCEPT ![i] = <<k, data[i][2]>>] : k \in Changed(data[i][1]) }
              \cup { [data EXCEPT ![i] = <<data[i][1], v>>] : v \in Changed(data[i][2]) }
            : i \in DOMAIN data }

\* the argument lists that differ from args in exactly one byte of the named argument
OneByteAway(args, field) ==
    CASE field = "timestamp" -> { [args EXCEPT !.timestamp = t] : t \in Changed(args.timestamp) }
      [] field = "method"    -> { [args EXCEPT !.method = m] : m \in Changed(args.method) }
      [] field = "path"      -> { [args EXCEPT !.request_path = p] : p \in Changed(args.request_path) }
      [] field = "body"      -> { [args EXCEPT !.data = d] : d \in ChangedData(args.data) }
      [] OTHER               -> { args }

SignatureFields == {"timestamp", "method", "path", "body", "none"}

\* a call of _generate_signature
CallGenerateSignature(request_path, method, timestamp, data) ==
    /\ req.called = "none"
    /\ req' = [NoReq EXCEPT
                 !.called = "_generate_signature",
                 !.in = [request_path |-> request_path, method |-> method,
                         timestamp |-> timestamp, data |-> data],
                 !.out = GenerateSignature(request_path, method, timestamp, data)]
    /\ UNCHANGED <<clientVars, fee, conv, pipe>>

\* a second call of _generate_signature, with the arguments args2
CallGenerateSignatureAgain(field, args2) ==
    /\ req.called = "_generate_signature"
    /\ req' = [req EXCEPT
                 !.called = "_generate_signature(again)",
                 !.field = field,
                 !.in2 = args2,
                 !.out2 = GenerateSignature(args2.request_path, args2.method,
                                            args2.timestamp, args2.data)]
    /\ UNCHANGED <<clientVars, fee, conv, pipe>>

\* the code point of a character
Ord(c) ==
    CASE c = "B" -> 66
      [] c = "a" -> 97
      [] c = "b" -> 98
      [] c = "c" -> 99
      [] c = "e" -> 101
      [] c = "l" -> 108
      [] c = "o" -> 111
      [] c = "p" -> 112
      [] c = "s" -> 115
      [] OTHER   -> 0

\* s < t of two Python strings: by code point, a proper prefix first
RECURSIVE StrLess(_, _)
StrLess(s, t) ==
    IF t = <<>> THEN FALSE
    ELSE IF s = <<>> THEN TRUE
    ELSE IF Head(s) # Head(t) THEN Ord(Head(s)) < Ord(Head(t))
    ELSE StrLess(Tail(s), Tail(t))

LeastKey(keys) == CHOOSE k \in keys : \A j \in keys : j = k \/ StrLess(k, j)

\* param_list.sort(key=lambda x: x[0]): the keys in ascending order
RECURSIVE SortedKeys(_)
SortedKeys(keys) ==
    IF keys = {} THEN <<>>
    ELSE <<LeastKey(keys)>> \o SortedKeys(keys \ {LeastKey(keys)})

\* for key, value in param_list: url = url + str(key) + '=' + str(value) + '&'
RECURSIVE AppendParams(_, _, _)
AppendParams(url, params, keys) ==
    IF keys = <<>> THEN url
    ELSE AppendParams(url \o Head(keys) \o <<"=">> \o params[Head(keys)] \o <<"&">>,
                      params, Tail(keys))

StripLast_Keep(url) == url

\* url[:-1]
StripLast(url) == SubSeq(url, 1, Len(url) - 1)

\* _parse_params_to_str; a mapping is a function from its keys to its values
ParseParamsToStr(params) ==
    IF DOMAIN params = {} THEN <<>>
    ELSE StripLast(AppendParams(<<"?">>, params, SortedKeys(DOMAIN params)))

\* the sampled keys and values of a parameter mapping
ParamKeys == { <<"a">>, <<"a", "b">>, <<"b">>, <<"B">> }

ParamValues == { <<"1">>, <<"2", "0">> }

ParamMappings == UNION { [keys -> ParamValues] : keys \in SUBSET ParamKeys }

\* a call of _parse_params_to_str
CallParseParamsToStr(params) ==
    /\ req.called = "none"
    /\ req' = [NoReq EXCEPT !.called = "_parse_params_to_str",
                            !.in = params,
                            !.out = ParseParamsToStr(params)]
    /\ UNCHANGED <<clientVars, fee, conv, pipe>>

\* assets.get('code') == '00000'
SuccessCode == "00000"

Codes == {SuccessCode, "40001"}

Coins == {"USDC", "ETH"}

\* an entry of the assets list; has_available is whether it has the key 'available'
AssetEntries ==
    { [coin |-> c, has_available |-> TRUE, available |-> a] : c \in Coins, a \in 0..MaxAmount }
        \cup { [coin |-> c, has_available |-> FALSE, available |-> 0] : c \in Coins }

AssetLists ==
    {<<>>} \cup { <<a>> : a \in AssetEntries } \cup { <<a, b>> : a \in AssetEntries, b \in AssetEntries }

\* float(asset.get('available', '0'))
Available(asset) == IF asset.has_available THEN asset.available ELSE 0

Insufficient_Reversed(available, amount) == available > amount

\* if available < float(amount)
Insufficient(available, amount) == available < amount

BalanceListed_AnyCode(assets) == assets.data # <<>>

\* if assets.get('code') == '00000' and assets.get('data')
BalanceListed(assets) == assets.code = SuccessCode /\ assets.data # <<>>

\* for asset in assets.get('data', []): if asset.get('coin') == coin: ...
SomeInsufficient(assets, coin, amount) ==
    \E i \in DOMAIN assets.data :
        /\ assets.data[i].coin = coin
        /\ Insufficient(Available(assets.data[i]), amount)

\* withdraw(coin, chain, amount, to_address). complete: the four arguments are
\* non-empty; credentials: api_key and api_secret are set; getOk and postOk:
\* the GET of the assets and the POST of the withdrawal are answered with status
\* 200; assets: the body of the assets response. The outcome is returned with
\* the numbers of GET and POST requests sent.
Withdraw(coin, amount, complete, credentials, getOk, assets, postOk) ==
    IF ~complete
    THEN [result |-> Raise("ValueError", <<"Missing required parameters for withdrawal">>, 175),
          gets |-> 0, posts |-> 0]
    ELSE IF ~credentials
    THEN [result |-> Raise("ValueError", <<"Missing API credentials">>, 179),
          gets |-> 0, posts |-> 0]
    ELSE IF ~getOk
    THEN [result |-> Raise("Exception", <<"Error", "status">>, 146), gets |-> 1, posts |-> 0]
    ELSE IF BalanceListed(assets) /\ SomeInsufficient(assets, coin, amount)
    THEN [result |-> Raise("ValueError", <<"Insufficient balance">>, 203),
          gets |-> 1, posts |-> 0]
    ELSE IF ~postOk
    THEN [result |-> Raise("Exception", <<"Error", "status">>, 154), gets |-> 1, posts |-> 1]
    ELSE [result |-> Return("response"), gets |-> 1, posts |-> 1]

\* a call of withdraw
CallWithdraw(coin, amount, complete, credentials, getOk, assets, postOk) ==
    /\ req.called = "none"
    /\ req' = [NoReq EXCEPT
                 !.called = "withdraw",
                 !.in = [coin |-> coin, amount |-> amount, complete |-> complete,
                         credentials |-> credentials, getOk |-> getOk,
                         assets |-> assets, postOk |-> postOk],
                 !.out = Withdraw(coin, amount, complete, credentials, getOk, assets, postOk)]
    /\ UNCHANGED <<clientVars, fee, conv, pipe>>

\* self.base_url
BaseUrl == <<"base_url">>

\* the method the exchange client requests its reads with
Get == <<"G", "E", "T">>

\* quote_plus on one character: letters and digits stay, a space becomes '+',
\* any other character its percent-encoding
QuotePlusChar(c) ==
    CASE c = " " -> <<"+">>
      [] c = ":" -> <<"%", "3", "A">>
      [] OTHER   -> <<c>>

RECURSIVE QuotePlus(_)
QuotePlus(s) == IF s = <<>> THEN <<>> ELSE QuotePlusChar(Head(s)) \o QuotePlus(Tail(s))

\* urlencode(params) of a dict given as the sequence of its items: the items in
\* insertion order, key and value quoted, joined by '&'
RECURSIVE UrlEncode(_)
UrlEncode(items) ==
    IF items = <<>> THEN <<>>
    ELSE QuotePlus(Head(items)[1]) \o <<"=">> \o QuotePlus(Head(items)[2])
         \o (IF Len(items) > 1 THEN <<"&">> ELSE <<>>)
         \o UrlEncode(Tail(items))

\* the mapping of a dict given as the sequence of its items
AsMapping(items) ==
    [k \in { items[i][1] : i \in DOMAIN items } |->
        (CHOOSE v \in { items[i][2] : i \in { j \in DOMAIN items : items[j][1] = k } } : TRUE)]

\* _get_headers: the path that is signed and the ACCESS-SIGN header
GetHeaders(path, method, params, data, timestamp) ==
    LET withQuery == method = Get /\ params # <<>>
        signature_path == IF withQuery
                          THEN path \o ParseParamsToStr(AsMapping(params))
                          ELSE path
        signed == GenerateSignature(signature_path, method, timestamp,
                                    IF withQuery THEN <<>> ELSE data)
    IN  [signature_path |-> signature_path, message |-> signed.message,
         sign |-> signed.signature, timestamp |-> timestamp]

\* _make_request: the URL that is requested, the headers, and the outcome;
\* statusOk is whether the response has status 200
MakeRequest(method, path, params, data, timestamp, statusOk) ==
    LET url == BaseUrl \o path
               \o (IF params # <<>> THEN <<"?">> \o UrlEncode(params) ELSE <<>>)
    IN  [url |-> url,
         headers |-> GetHeaders(path, method, params, data, timestamp),
         result |-> IF statusOk THEN Return("response")
                    ELSE Raise("Exception", <<"Error", "status">>,
                               IF method = Get THEN 146 ELSE 154)]

\* if value: params[key] = value
PutIf(params, key, value) == IF value = <<>> THEN params ELSE Append(params, <<key, value>>)

\* the path of the withdrawal list, shortened to its last part
WithdrawListPath == <<"/", "w", "i", "t", "h", "d", "r", "a", "w", "-", "l", "i", "s", "t">>

\* get_withdrawal_history: params in the order the code fills them in. An
\* argument that is None or empty is <<>>.
GetWithdrawalHistory(coin, start_time, end_time, page_size, client_oid, timestamp, statusOk) ==
    LET p0 == << <<(<<"p", "a", "g", "e", "S", "i", "z", "e">>), page_size>> >>
        p1 == PutIf(p0, <<"c", "o", "i", "n">>, coin)
        p2 == PutIf(p1, <<"s", "t", "a", "r", "t", "T", "i", "m", "e">>, start_time)
        p3 == PutIf(p2, <<"e", "n", "d", "T", "i", "m", "e">>, end_time)
        params == PutIf(p3, <<"c", "l", "i", "e", "n", "t", "O", "i", "d">>, client_oid)
    IN  MakeRequest(Get, WithdrawListPath, params, <<>>, timestamp, statusOk)

\* the sampled arguments of get_withdrawal_history
HistoryCoins == { <<>>, <<"E", "T", "H">> }

HistoryTimes == { <<>>, <<"1">> }

PageSizes == { <<"2", "0">> }

ClientOids == { <<>>, <<"a">>, <<"a", ":", "1">> }

\* a call of get_withdrawal_history
CallGetWithdrawalHistory(coin, start_time, end_time, page_size, client_oid, timestamp, statusOk) ==
    /\ req.called = "none"
    /\ req' = [NoReq EXCEPT
                 !.called = "get_withdrawal_history",
                 !.in = [coin |-> coin, start_time |-> start_time, end_time |-> end_time,
                         page_size |-> page_size, client_oid |-> client_oid],
                 !.out = GetWithdrawalHistory(coin, start_time, end_time, page_size,
                                              client_oid, timestamp, statusOk)]
    /\ UNCHANGED <<clientVars, fee, conv, pipe>>

ExchangeNext ==
    \/ /\ req.called = "none"
       /\ \E request_path \in Paths, method \in Methods, timestamp \in Timestamps,
             data \in Payloads :
             CallGenerateSignature(request_path, method, timestamp, data)
    \/ /\ req.called = "_generate_signature"
       /\ \E field \in SignatureFields :
             \E args2 \in OneByteAway(req.in, field) : CallGenerateSignatureAgain(field, args2)
    \/ /\ req.called = "none"
       /\ \E params \in ParamMappings : CallParseParamsToStr(params)
    \/ /\ req.called = "none"
       /\ \E coin \in Coins, amount \in 0..MaxAmount, complete \in BOOLEAN,
             credentials \in BOOLEAN, getOk \in BOOLEAN, code \in Codes,
             data \in AssetLists, postOk \in BOOLEAN :
             CallWithdraw(coin, amount, complete, credentials, getOk,
                          [code |-> code, data |-> data], postOk)
    \/ /\ req.called = "none"
       /\ \E coin \in HistoryCoins, start_time \in HistoryTimes, end_time \in HistoryTimes,
             page_size \in PageSizes, client_oid \in ClientOids, timestamp \in Timestamps,
             statusOk \in BOOLEAN :
             CallGetWithdrawalHistory(coin, start_time, end_time, page_size, client_oid,
                                      timestamp, statusOk)

ExchangeSpec == Init /\ [][ExchangeNext]_vars

-----------------------------------------------------------------------------
(* The pipeline: main, OdosClient.swap and the deposit send *)

\* usdc_amount = "11"
UsdcAmount == 11

\* the ETH held back for gas: float(eth_balance) - 0.001
GasReserve == [coef |-> 1, exp |-> -3]

\* wallet balances in wei range over c * 10^14, c * 10^15 and c * 10^18, c in 0..MaxBalance
MaxBalance == 2

\* The coroutine object that get_decimals(...) returns where it is called
\* without await. It is no int, so it is no key of the unit table; the model
\* writes it as an int that is no decimal count.
Coroutine == -1

\* def send_transaction(self, transaction=None, poll_latency=10, timeout=360, signed_tx=None)
SendTransactionParams == {"transaction", "poll_latency", "timeout", "signed_tx"}

\* the arguments of the call `self.client.send_transaction(tx_params=tx_params)`
SwapSendCallArgs == {"tx_params"}

RECURSIVE Pow10(_)
Pow10(n) == IF n <= 0 THEN 1 ELSE 10 * Pow10(n - 1)

\* the integer a decimal with exp >= 0 stands for
AsInt(v) == v.coef * Pow10(v.exp)

\* a - b of two decimals
DecSub(a, b) ==
    IF b.coef = 0 THEN Normalize(a)
    ELSE IF a.coef = 0 THEN Normalize([coef |-> 0 - b.coef, exp |-> b.exp])
    ELSE LET e == Min(a.exp, b.exp)
         IN  Normalize([coef |-> a.coef * Pow10(a.exp - e) - b.coef * Pow10(b.exp - e),
                        exp |-> e])

\* eth_to_send = float(eth_balance) - 0.001; on the model's balances the float
\* difference has the sign and the integer part of the exact difference
EthToSend(eth_balance) == DecSub(eth_balance, GasReserve)

NothingToSend_Negative(eth_to_send) == eth_to_send.coef < 0

\* if eth_to_send <= 0
NothingToSend(eth_to_send) == eth_to_send.coef <= 0

\* tx_params["to"] = deposit_address: of the record, nonce, value and to are kept
SetTo(tx_params, to) == [nonce |-> tx_params.nonce, value |-> tx_params.value, to |-> to]

\* the steps of main, in the order of the source
AllSteps == <<"withdraw", "wait", "usdc_balance", "swap", "eth_balance",
              "deposit_address", "send">>

\* The places where the pipeline is taken up on sampled values of its locals:
\* behind odos_client.py:54 and :66 and behind main.py:58. Each of these lines
\* is left by an exception in every run from the top of main, so the code
\* behind them is exercised from here.
ResumePoints == {"swap_quote", "swap_gate", "eth_balance"}

\* the balances get_erc20_balance answers with, in the token's smallest unit
UsdcBalances ==
    { Normalize([coef |-> c, exp |-> 6]) : c \in 0..MaxAmount } \cup { [coef |-> UsdcAmount, exp |-> 6] }

\* the balances get_balance answers with, in wei
EthBalances == { Normalize([coef |-> c, exp |-> e]) : c \in 0..MaxBalance, e \in {14, 15, 18} }

\* the fee histories the deposit transaction is prepared on
FlatRewards == { [i \in 1..BlockCount |-> f] : f \in {0, MaxSample} }

\* the step raised res and nothing catches it: the exception leaves main
Abort(p, step, res) == [p EXCEPT !.pc = "done", !.failed = step, !.result = res]

\* an exception was raised inside the try block of swap and its except clause
\* made res of it: raised, it leaves swap and main; otherwise swap returns
LeaveSwap(p, res) ==
    IF res.kind = "raise"
    THEN Abort(p, "swap", res)
    ELSE [p EXCEPT !.failed = "swap", !.pc = "eth_balance"]

\* main.py:26-32: bitget_client.withdraw(coin="USDC", chain, amount=usdc_amount, to_address)
MainWithdraw(credentials, getOk, code, available, postOk) ==
    /\ pipe.pc = "start"
    /\ LET w == Withdraw("USDC", UsdcAmount, TRUE, credentials, getOk,
                         [code |-> code,
                          data |-> <<[coin |-> "USDC", has_available |-> TRUE,
                                      available |-> available]>>],
                         postOk)
           p == [pipe EXCEPT !.entry = "main", !.steps = Append(@, "withdraw"),
                             !.posts = w.posts, !.ok = w.result.kind = "return"]
       IN  pipe' = IF w.result.kind = "raise"
                   THEN Abort(p, "withdraw", w.result)
                   ELSE [p EXCEPT !.pc = "wait"]
    /\ UNCHANGED <<clientVars, fee, conv, req>>

\* the pipeline taken up at a resume point
Resume(at, amount) ==
    /\ pipe.pc = "start"
    /\ pipe' = [pipe EXCEPT !.entry = at, !.pc = at,
                            !.amount = IF at = "eth_balance" THEN 0 ELSE amount]
    /\ UNCHANGED <<clientVars, fee, conv, req>>

\* main.py:36: await asyncio.sleep(60)
MainWait ==
    /\ pipe.pc = "wait"
    /\ pipe' = [pipe EXCEPT !.pc = "usdc_balance", !.steps = Append(@, "wait")]
    /\ UNCHANGED <<clientVars, fee, conv, req>>

\* main.py:39-43: get_erc20_balance, get_decimals, from_wei
MainUsdcBalance(balanceOk, decimalsOk, balance, decimals) ==
    /\ pipe.pc = "usdc_balance"
    /\ LET f == FromWei(balance, decimals)
           p == [pipe EXCEPT !.steps = Append(@, "usdc_balance"),
                             !.ok = @ /\ balanceOk /\ decimalsOk /\ f.kind = "value"]
       IN  pipe' = IF ~balanceOk
                   THEN Abort(p, "usdc_balance", Raise("Exception", <<"rpc error">>, 40))
                   ELSE IF ~decimalsOk
                   THEN Abort(p, "usdc_balance", Raise("Exception", <<"rpc error">>, 41))
                   ELSE IF f.kind = "KeyError"
                   THEN Abort(p, "usdc_balance", Raise("KeyError", <<"decimals">>, 42))
                   ELSE [p EXCEPT !.pc = "swap", !.usdc = f.val]
    /\ UNCHANGED <<clientVars, fee, conv, req>>

\* main.py:50-57 and odos_client.py:51-54: the call of swap and its first lines.
\* decimals_input_token is the coroutine that get_decimals returns un-awaited.
MainSwap ==
    /\ pipe.pc = "swap"
    /\ LET p == [pipe EXCEPT !.steps = Append(@, "swap")]
           decimals_input_token == Coroutine
           input_amount_wei == ToWei(pipe.usdc, decimals_input_token)
       IN  pipe' = IF input_amount_wei.kind = "KeyError"
                   THEN Abort(p, "swap", Raise("KeyError", <<"coroutine object">>, 54))
                   ELSE [p EXCEPT !.pc = "swap_quote", !.amount = AsInt(input_amount_wei.val)]
    /\ UNCHANGED <<clientVars, fee, conv, req>>

\* odos_client.py:56-62: get_quote and assemble
SwapQuote(quoteOk, assembleOk) ==
    /\ pipe.pc = "swap_quote"
    /\ LET p == [pipe EXCEPT !.ok = @ /\ quoteOk /\ assembleOk]
       IN  pipe' = IF ~quoteOk
                   THEN Abort(p, "swap", Raise("Exception", <<"request error">>, 61))
                   ELSE IF ~assembleOk
                   THEN Abort(p, "swap", Raise("Exception", <<"request error">>, 62))
                   ELSE [p EXCEPT !.pc = "swap_output"]
    /\ UNCHANGED <<clientVars, fee, conv, req>>

\* odos_client.py:64-68: the output amount; decimals_output_token is again the
\* coroutine that get_decimals returns un-awaited
SwapOutput(output_value_wei) ==
    /\ pipe.pc = "swap_output"
    /\ LET decimals_output_token == Coroutine
           out_amount_ether == FromWei(output_value_wei, decimals_output_token)
       IN  pipe' = IF out_amount_ether.kind = "KeyError"
                   THEN Abort(pipe, "swap", Raise("KeyError", <<"coroutine object">>, 66))
                   ELSE [pipe EXCEPT !.pc = "swap_gate"]
    /\ UNCHANGED <<clientVars, fee, conv, req>>

AfterGate_Ignore(p, res) ==
    [p EXCEPT !.gate = IF res.kind = "raise" THEN "raised" ELSE "returned",
              !.pc = "swap_send"]

\* odos_client.py:75: the await of check_for_approved has ended with res. The
\* call stands above the try block: an exception leaves swap, a return lets
\* swap go on to prepare_transaction
AfterGate(p, res) ==
    IF res.kind = "raise"
    THEN Abort([p EXCEPT !.gate = "raised"], "swap", res)
    ELSE [p EXCEPT !.gate = "returned", !.pc = "swap_send"]

\* odos_client.py:70-75: if input_token != ZERO_ADDRESS: await check_for_approved(...)
\* native: input_token is the zero address. A gate that has submitted an
\* approval is pending until the approval's poll loop has ended.
SwapGate(native, approved, unlimited, rpcOk, prepOk, sendOk) ==
    /\ pipe.pc = "swap_gate"
    /\ pc = "idle"
    /\ IF native
       THEN /\ pipe' = [pipe EXCEPT !.input = "native", !.gate = "not_invoked",
                                    !.pc = "swap_send"]
            /\ UNCHANGED clientVars
       ELSE /\ CheckForApprovedCall(approved, pipe.amount, unlimited, rpcOk, prepOk, sendOk)
            /\ LET p == [pipe EXCEPT !.input = "token", !.ok = @ /\ rpcOk]
               IN  pipe' = IF pc' = "done"
                           THEN AfterGate(p, result')
                           ELSE [p EXCEPT !.gate = "pending", !.pc = "swap_send"]
    /\ UNCHANGED <<fee, conv, req>>

\* odos_client.py:77-89: prepare_transaction and send_transaction(tx_params=...)
\* inside try, and the except clause. The step waits for the approval's poll
\* loop when the gate submitted one.
SwapSend(nonce, prepOk, errText, sendOk) ==
    /\ pipe.pc = "swap_send"
    /\ pc \in {"idle", "done"}
    /\ LET g == IF pipe.gate = "pending" THEN AfterGate(pipe, result) ELSE pipe
           p == [g EXCEPT !.nonce_reads = @ + 1, !.nonce = nonce, !.ok = @ /\ prepOk]
       IN  IF g.pc = "done"
           THEN /\ pipe' = g
                /\ UNCHANGED clientVars
           ELSE IF ~prepOk
                THEN /\ pipe' = LeaveSwap(p, SwapExcept(Raise("BlockchainException",
                                                              <<errText>>, 149)))
                     /\ UNCHANGED clientVars
                ELSE IF ~CallBinds({}, SendTransactionParams, SwapSendCallArgs)
                THEN \* TypeError at the call, inside try
                     /\ pipe' = LeaveSwap(p, SwapExcept(Raise("TypeError",
                                          <<"send_transaction() got an unexpected keyword argument">>,
                                          84)))
                     /\ UNCHANGED clientVars
                ELSE /\ pipe' = [p EXCEPT !.pc = "swap_transaction",
                                          !.ok = @ /\ sendOk,
                                          !.swap_broadcast = IF sendOk THEN 1 ELSE 0,
                                          !.signed = [nonce |-> nonce, value |-> NoDec,
                                                      to |-> "spender_odos_contract"]]
                     /\ Submit([kind |-> "swap", amount |-> NoAmount], "swap",
                               <<DefaultPollLatency, DefaultTimeout>>, sendOk, NoObs)
                     /\ UNCHANGED gate
    /\ UNCHANGED <<fee, conv, req>>

\* main.py:58-62: swap returned (or the run is taken up here); get_native_balance
MainEthBalance(balanceOk, wei_balance) ==
    /\ \/ pipe.pc = "eth_balance"
       \/ pipe.pc = "swap_transaction" /\ pc = "done" /\ result.kind = "return"
    /\ LET p == [pipe EXCEPT !.steps = Append(@, "eth_balance"), !.ok = @ /\ balanceOk]
       IN  pipe' = IF ~balanceOk
                   THEN Abort(p, "eth_balance", Raise("Exception", <<"rpc error">>, 61))
                   ELSE [p EXCEPT !.pc = "deposit_address",
                                  !.wei_balance = wei_balance,
                                  !.eth_balance = FromWei(wei_balance, 18).val]
    /\ UNCHANGED <<clientVars, fee, conv, req>>

\* main.py:65-67: get_deposit_address(coin="ETH", chain)
MainDepositAddress(addressOk) ==
    /\ pipe.pc = "deposit_address"
    /\ LET p == [pipe EXCEPT !.steps = Append(@, "deposit_address"), !.ok = @ /\ addressOk]
       IN  pipe' = IF ~addressOk
                   THEN Abort(p, "deposit_address", Raise("Exception", <<"Error", "status">>, 271))
                   ELSE [p EXCEPT !.pc = "send"]
    /\ UNCHANGED <<clientVars, fee, conv, req>>

\* main.py:71-82: the sendable amount, its test, to_wei, prepare_transaction,
\* tx_params["to"] = deposit_address, send_transaction(tx_params). Of the record
\* that is signed, the state keeps nonce, value and to.
MainSend(nonce, prepOk, sendOk, base, reward, mult) ==
    /\ pipe.pc = "send"
    /\ LET eth_to_send == EthToSend(pipe.eth_balance)
           p == [pipe EXCEPT !.eth_to_send = eth_to_send]
       IN  IF NothingToSend(eth_to_send)
           THEN \* logger.error(...); return
                /\ pipe' = [p EXCEPT !.pc = "done", !.result = Return("None")]
                /\ UNCHANGED clientVars
           ELSE LET value == ToWei(eth_to_send, 18).val
                    tx_params == TxParams(TRUE, nonce, value, base, reward, mult)
                    q == [p EXCEPT !.steps = Append(@, "send"),
                                   !.nonce_reads = @ + 1, !.nonce = nonce,
                                   !.ok = @ /\ prepOk /\ sendOk]
                IN  IF ~prepOk
                    THEN /\ pipe' = Abort(q, "send",
                                          Raise("BlockchainException", <<"rpc error">>, 149))
                         /\ UNCHANGED clientVars
                    ELSE /\ pipe' = [q EXCEPT !.pc = "send_transaction",
                                              !.signed = SetTo(tx_params, "deposit_address")]
                         /\ Submit([kind |-> "transfer", amount |-> NoAmount], "main",
                                   <<DefaultPollLatency, DefaultTimeout>>, sendOk, NoObs)
                         /\ gate' = NoGate
    /\ UNCHANGED <<fee, conv, req>>

PipeNext ==
    \/ /\ pipe.pc = "start"
       /\ \E credentials \in BOOLEAN, getOk \in BOOLEAN, code \in Codes,
             available \in (UsdcAmount - 1)..UsdcAmount, postOk \in BOOLEAN :
             MainWithdraw(credentials, getOk, code, available, postOk)
    \/ /\ pipe.pc = "start"
       /\ \E at \in ResumePoints, amount \in 0..MaxAmount : Resume(at, amount)
    \/ MainWait
    \/ /\ pipe.pc = "usdc_balance"
       /\ \E balanceOk \in BOOLEAN, decimalsOk \in BOOLEAN, balance \in UsdcBalances,
             decimals \in DecimalCounts :
             MainUsdcBalance(balanceOk, decimalsOk, balance, decimals)
    \/ MainSwap
    \/ /\ pipe.pc = "swap_quote"
       /\ \E quoteOk \in BOOLEAN, assembleOk \in BOOLEAN : SwapQuote(quoteOk, assembleOk)
    \/ /\ pipe.pc = "swap_output"
       /\ \E output_value_wei \in EthBalances : SwapOutput(output_value_wei)
    \/ /\ pipe.pc = "swap_gate"
       /\ \E native \in BOOLEAN, approved \in 0..MaxAmount, unlimited \in BOOLEAN,
             rpcOk \in BOOLEAN, prepOk \in BOOLEAN, sendOk \in BOOLEAN :
             SwapGate(native, approved, unlimited, rpcOk, prepOk, sendOk)
    \/ /\ pipe.pc = "swap_send"
       /\ \E nonce \in 0..MaxNonce, prepOk \in BOOLEAN,
             errText \in {"rpc error", "transfer amount exceeds balance"}, sendOk \in BOOLEAN :
             SwapSend(nonce, prepOk, errText, sendOk)
    \/ /\ pipe.pc \in {"eth_balance", "swap_transaction"}
       /\ \E balanceOk \in BOOLEAN, wei_balance \in EthBalances :
             MainEthBalance(balanceOk, wei_balance)
    \/ /\ pipe.pc = "deposit_address"
       /\ \E addressOk \in BOOLEAN : MainDepositAddress(addressOk)
    \/ /\ pipe.pc = "send"
       /\ \E nonce \in 0..MaxNonce, prepOk \in BOOLEAN, sendOk \in BOOLEAN,
             base \in 0..MaxBaseFee, reward \in FlatRewards, mult \in Multipliers :
             MainSend(nonce, prepOk, sendOk, base, reward, mult)
    \/ \E answer \in ReceiptAnswers : GetReceipt(answer)
    \/ Sleep

PipeSpec == Init /\ [][PipeNext]_vars

-----------------------------------------------------------------------------
(* Claims about the approval gate *)

GateDone == pc = "done" /\ op = "check_for_approved" /\ gate.called

\* C1: when the allowance read is below amount_in_wei (and no RPC call fails),
\* check_for_approved has built, signed and broadcast exactly one approval
\* transaction when it ends.
C1_OneApprovalIssued ==
    (GateDone /\ gate.approved < gate.amount /\ result.msg # <<"rpc error">>)
        => /\ obs.built = 1
           /\ obs.signed = 1
           /\ obs.broadcast = 1

\* C2: when the allowance read is at least amount_in_wei, check_for_approved
\* returns False at once: no transaction is built, signed or broadcast, no
\* receipt is looked up and no settle delay is taken.
C2_NoApprovalWhenAllowed ==
    (op = "check_for_approved" /\ gate.called /\ gate.approved >= gate.amount)
        => /\ pc = "done"
           /\ result = Return("False")
           /\ tx = NoTx
           /\ obs = NoObs

C2_Witness == GateDone /\ gate.approved = gate.amount /\ gate.amount > 0 /\ result = Return("False")

-----------------------------------------------------------------------------
(* Claims about the poll loop *)

\* every answer of the call so far was not-found (the last may be a final one)
OnlyNotFound == obs.nUnset = 0 /\ obs.nExc = 0

HasExplorerUrl(m) == \E i \in 1..Len(m) : m[i] = ExplorerUrl

\* C3: after k not-found answers and then a receipt with success status, with
\* k poll intervals inside the timeout, send_transaction returns True after
\* exactly k sleeps and k+1 lookups; and a run of not-found answers is only
\* timed out once its intervals exceed the timeout.
C3_SuccessAfterKSleeps ==
    /\ (pc = "done" /\ last = "status_1" /\ OnlyNotFound
          /\ obs.nNotFound * poll_latency <= timeout)
        => /\ result = Return("True")
           /\ obs.sleeps = obs.nNotFound
           /\ obs.lookups = obs.nNotFound + 1
    /\ (pc = "done" /\ last = "not_found" /\ OnlyNotFound)
        => obs.nNotFound * poll_latency > timeout

C3_Witness ==
    /\ pc = "done" /\ op = "send_transaction" /\ last = "status_1" /\ OnlyNotFound
    /\ timeout = DefaultTimeout /\ poll_latency = DefaultPollLatency
    /\ obs.nNotFound = 36 /\ obs.sleeps = 36 /\ result = Return("True")

\* C4: a lookup answered by a receipt whose status is neither success nor unset
\* ends the call at that poll with a BlockchainException that carries the
\* explorer URL, without a sleep and without a further lookup.
C4_FailureRaisesAtOnce ==
    [][GetReceipt("status_0")
         => /\ pc' = "done"
            /\ result'.kind = "raise"
            /\ result'.exc = "BlockchainException"
            /\ HasExplorerUrl(result'.msg)
            /\ obs'.sleeps = obs.sleeps]_vars

C4_Witness ==
    /\ pc = "done" /\ last = "status_0" /\ obs.lookups = 3 /\ obs.sleeps = 2
    /\ result.kind = "raise" /\ HasExplorerUrl(result.msg)

TimeoutRaised == pc = "done" /\ last = "not_found" /\ result.kind = "raise" /\ result.line = 184

\* C5: while every lookup answers not-found the loop ends, after finitely many
\* polls, by raising the timeout BlockchainException; once it is raised there
\* is no further lookup and no further sleep.
C5_AllNotFoundTimesOut ==
    /\ (pc = "polling" /\ OnlyNotFound) ~> (~OnlyNotFound \/ pc = "done")
    /\ []((pc = "done" /\ last = "not_found") => TimeoutRaised)
    /\ [][TimeoutRaised => obs' = obs]_vars

C5_Witness ==
    TimeoutRaised /\ OnlyNotFound /\ timeout = DefaultTimeout /\ obs.nNotFound > 36

\* C6: whatever the answers of the receipt lookups, a poll loop that has started
\* ends (Confirmed-Success, Confirmed-Failure or TimedOut).
C6_PollTerminates == (pc = "polling") ~> (pc = "done")

-----------------------------------------------------------------------------
(* Claims about the fee calculator *)

Prepared1559 == fee.called = "prepare_transaction" /\ fee.in.eip1559_support

\* the non-zero samples of a reward history: how many, and their sum
NonZeroCount(reward) == Cardinality({i \in DOMAIN reward : reward[i] # 0})

Abs(n) == IF n < 0 THEN -n ELSE n

\* C7: in every record prepare_transaction returns on an EIP-1559 network,
\* maxPriorityFeePerGas <= maxFeePerGas.
C7_PriorityWithinMaxFee ==
    Prepared1559 => fee.out.maxPriorityFeePerGas <= fee.out.maxFeePerGas

\* the clamp applied
C7_Witness ==
    /\ Prepared1559
    /\ GetPriorityFee(fee.in.reward) > fee.out.maxFeePerGas
    /\ fee.out.maxPriorityFeePerGas < GetPriorityFee(fee.in.reward)
    /\ fee.out.maxFeePerGas > 0

\* C8 as stated: get_priority_fee returns the sum of the non-zero samples
\* divided by their count (by 1 when every sample is zero).
C8_ExactAverage ==
    fee.called = "get_priority_fee"
        => fee.out * Max(NonZeroCount(fee.in.reward), 1) = SumSeq(fee.in.reward)

\* C8 amended: get_priority_fee returns the sum of the non-zero samples divided
\* by their count and rounded to the nearest integer, a tie to the even one;
\* it returns 0 when every sample is zero.
C8_RoundedAverage ==
    fee.called = "get_priority_fee"
        => LET n == NonZeroCount(fee.in.reward)
               s == SumSeq(fee.in.reward)
           IN  IF n = 0 THEN fee.out = 0
               ELSE /\ 2 * Abs(fee.out * n - s) <= n
                    /\ 2 * Abs(fee.out * n - s) = n => fee.out % 2 = 0

\* two non-zero samples, 2 and 3: the average 2.5 is returned as 2
C8_Witness ==
    /\ fee.called = "get_priority_fee"
    /\ NonZeroCount(fee.in.reward) = 2
    /\ SumSeq(fee.in.reward) = 5
    /\ fee.out = 2

\* C9 as stated: when the clamp does not apply, maxPriorityFeePerGas is the
\* averaged priority fee times 1.05 times the multiplier, and maxFeePerGas is
\* the base fee plus that maxPriorityFeePerGas.
C9_PriorityScaled ==
    (Prepared1559 /\ GetPriorityFee(fee.in.reward) <= fee.out.maxFeePerGas)
        => /\ fee.out.maxPriorityFeePerGas =
                  IntTrunc(GetPriorityFee(fee.in.reward) * 21 * fee.in.multiplier[1],
                           20 * fee.in.multiplier[2])
           /\ fee.out.maxFeePerGas = fee.in.base_fee + fee.out.maxPriorityFeePerGas

\* C9 amended: maxFeePerGas is the integer part of base fee + averaged priority
\* fee * 1.05 * multiplier, and maxPriorityFeePerGas is the averaged priority
\* fee itself, not multiplied, when the clamp does not apply (and the integer
\* part of 0.95 * maxFeePerGas when it does).
C9_FeeFields ==
    Prepared1559
        => LET avg == GetPriorityFee(fee.in.reward)
               mf == fee.out.maxFeePerGas
               den == 20 * fee.in.multiplier[2]
               exact == fee.in.base_fee * den + avg * 21 * fee.in.multiplier[1]
           IN  /\ mf * den <= exact
               /\ exact < (mf + 1) * den
               /\ avg <= mf => fee.out.maxPriorityFeePerGas = avg
               /\ avg > mf => /\ fee.out.maxPriorityFeePerGas * 20 <= mf * 19
                              /\ mf * 19 < (fee.out.maxPriorityFeePerGas + 1) * 20

\* average 3, multiplier 1.3: maxFeePerGas = base + 4, maxPriorityFeePerGas = 3
C9_Witness ==
    /\ Prepared1559
    /\ GetPriorityFee(fee.in.reward) = 3
    /\ fee.in.multiplier = <<13, 10>>
    /\ fee.out.maxFeePerGas = fee.in.base_fee + 4
    /\ fee.out.maxPriorityFeePerGas = 3

-----------------------------------------------------------------------------
(* Claims about the unit conversions *)

\* C10: to_wei(from_wei(x, d), d) = x for every non-negative smallest-unit
\* integer x and every decimal count d the round trip is made with.
C10_RoundTrip ==
    conv.called = "to_wei(from_wei)" => conv.out = Value(conv.x)


-----------------------------------------------------------------------------
(* Claims about the exchange client *)

SignedAgain == req.called = "_generate_signature(again)"

\* two characters that are the same letter in either case
SameLetter(a, b) == a = b \/ {a, b} = {"g", "G"} \/ {a, b} = {"a", "A"}

\* the second call changed only the letter case of the method
CaseOnly ==
    /\ req.field = "method"
    /\ \A i \in DOMAIN req.in.method : SameLetter(req.in.method[i], req.in2.method[i])

\* C15 as stated: _generate_signature is deterministic, and a second call that
\* differs in one byte of one argument (timestamp, method, path or body) signs
\* a different canonical message and returns a different signature.
C15_AnyByteChangesSignature ==
    SignedAgain
        => IF req.field = "none"
           THEN req.out2 = req.out
           ELSE /\ req.out2.message # req.out.message
                /\ req.out2.signature # req.out.signature

\* C15 amended: _generate_signature is deterministic, and a second call that
\* differs in one byte of one argument signs a different canonical message and
\* returns a different signature, unless the byte is a letter of the method
\* changed to the same letter in the other case: then message and signature are
\* the same.
C15_ByteChangesUpToMethodCase ==
    SignedAgain
        => IF req.field = "none"
           THEN req.out2 = req.out
           ELSE /\ (req.out2.message = req.out.message) <=> CaseOnly
                /\ (req.out2.signature = req.out.signature) <=> CaseOnly

\* one byte of the JSON body changed, and the signature with it
C15_Witness ==
    /\ SignedAgain
    /\ req.field = "body"
    /\ req.in.timestamp = <<"1", "2">>
    /\ req.in2.data # req.in.data
    /\ req.out2.signature # req.out.signature

\* s comes before t in lexicographic order: at the first place they differ s
\* has the lower code point, or s ends there
Before(s, t) ==
    \E i \in 1..Len(t) :
        /\ i <= Len(s) + 1
        /\ \A j \in 1..(i - 1) : s[j] = t[j]
        /\ (i = Len(s) + 1 \/ Ord(s[i]) < Ord(t[i]))

\* key=value of the keys ks[i..], joined by '&'
RECURSIVE JoinFrom(_, _, _)
JoinFrom(params, ks, i) ==
    IF i > Len(ks) THEN <<>>
    ELSE ks[i] \o <<"=">> \o params[ks[i]]
         \o (IF i < Len(ks) THEN <<"&">> ELSE <<>>)
         \o JoinFrom(params, ks, i + 1)

\* C16: for an empty mapping _parse_params_to_str returns the empty string;
\* otherwise it returns '?' followed by key=value of every key of the mapping,
\* each exactly once, in ascending lexicographic order of the keys, joined by
\* '&', and the string does not end with a separator.
C16_SortedQueryString ==
    req.called = "_parse_params_to_str"
        => LET n == Cardinality(DOMAIN req.in)
           IN  IF n = 0 THEN req.out = <<>>
               ELSE /\ req.out[Len(req.out)] # "&"
                    /\ \E ks \in [1..n -> DOMAIN req.in] :
                          /\ \A i \in 1..n : \A j \in 1..n : i < j => Before(ks[i], ks[j])
                          /\ req.out = <<"?">> \o JoinFrom(req.in, ks, 1)

\* three keys given, 'B' sorts before 'a' and 'a' before 'ab'
C16_Witness ==
    /\ req.called = "_parse_params_to_str"
    /\ DOMAIN req.in = { <<"a", "b">>, <<"a">>, <<"B">> }
    /\ SubSeq(req.out, 1, 3) = <<"?", "B", "=">>
    /\ Len(req.out) >= 11

\* the assets response arrived and lists the coin with less than the amount
ListedInsufficient ==
    /\ req.called = "withdraw"
    /\ req.out.gets = 1
    /\ req.in.getOk
    /\ \E i \in DOMAIN req.in.assets.data :
          /\ req.in.assets.data[i].coin = req.in.coin
          /\ req.in.assets.data[i].has_available
          /\ req.in.assets.data[i].available < req.in.amount

InsufficientRaised ==
    /\ req.out.result.kind = "raise"
    /\ req.out.result.msg = <<"Insufficient balance">>
    /\ req.out.posts = 0

\* C17 as stated: when the pre-flight assets response lists the coin with an
\* available amount below the requested amount, withdraw raises the
\* insufficient-balance error and sends no withdrawal POST.
C17_InsufficientBlocksPost == ListedInsufficient => InsufficientRaised

\* C17 amended: when the pre-flight assets response has the success code
\* '00000' and lists the coin with an available amount below the requested
\* amount, withdraw raises the insufficient-balance error and sends no
\* withdrawal POST.
C17_InsufficientBlocksPostOnSuccess ==
    (ListedInsufficient /\ req.in.assets.code = SuccessCode) => InsufficientRaised

C17_Witness ==
    /\ ListedInsufficient
    /\ req.in.assets.code = SuccessCode
    /\ req.in.amount = 2
    /\ req.in.postOk
    /\ Len(req.in.assets.data) = 2
    /\ InsufficientRaised

-----------------------------------------------------------------------------
(* Further claims about the poll loop *)

\* C18: on a not-found lookup the elapsed time is first increased by the poll
\* interval and then compared with the timeout. After n not-found lookups and
\* no other answer: the timeout was raised only at the first n with
\* n * poll_latency > timeout, after n - 1 sleeps, and the loop goes on to
\* sleep only while n * poll_latency <= timeout (with 10 and 360: raised at
\* the 37th lookup, after 36 sleeps).
C18_IncrementThenCompare ==
    /\ (TimeoutRaised /\ OnlyNotFound)
        => /\ obs.nNotFound * poll_latency > timeout
           /\ (obs.nNotFound - 1) * poll_latency <= timeout
           /\ obs.sleeps = obs.nNotFound - 1
    /\ (pc = "sleeping" /\ OnlyNotFound) => obs.nNotFound * poll_latency <= timeout


-----------------------------------------------------------------------------
(* Claims about the pipeline *)

\* the poll loop of the deposit send has ended
SendEnded == pipe.pc = "send_transaction" /\ pc = "done"

\* main has ended: by an exception, by its return at line 74, or behind the
\* deposit send
MainEnded ==
    \/ pipe.pc = "done"
    \/ SendEnded
    \/ pipe.pc = "swap_transaction" /\ pc = "done" /\ result.kind = "raise"

\* how main ended
MainOutcome == IF pipe.pc = "done" THEN pipe.result ELSE result

\* C11: a run of main in which every external call succeeds, every submitted
\* transaction is confirmed and the sendable ETH is positive ends having done
\* withdraw, wait, USDC balance check, swap, ETH balance check, deposit-address
\* lookup and send in this order, each once, with the swap transaction and the
\* deposit send both submitted and the deposit confirmed.
C11_PipelineCompletes ==
    (/\ pipe.entry = "main"
     /\ MainEnded
     /\ pipe.ok
     /\ pc = "done" => last = "status_1"
     /\ pipe.result # Return("None"))
        => /\ pipe.steps = AllSteps
           /\ pipe.swap_broadcast = 1
           /\ SendEnded
           /\ obs.broadcast = 1
           /\ result = Return("True")

\* C12: a step that raises ends the run at that step with the exception as the
\* outcome of main, and once main has ended by an exception nothing further
\* happens: no step, no request, no transaction, no receipt lookup.
C12_RaiseAbortsRun ==
    /\ [](pipe.failed # "none"
            => /\ pipe.pc = "done"
               /\ pipe.result.kind = "raise"
               /\ pipe.steps # <<>> => pipe.steps[Len(pipe.steps)] = pipe.failed)
    /\ [][(MainEnded /\ MainOutcome.kind = "raise") => UNCHANGED vars]_vars

\* the balance read raised behind the withdrawal: one POST, no swap, no send
C12_Witness ==
    /\ pipe.entry = "main"
    /\ pipe.failed = "usdc_balance"
    /\ pipe.result.kind = "raise"
    /\ pipe.steps = <<"withdraw", "wait", "usdc_balance">>
    /\ pipe.posts = 1
    /\ op = "none"

\* 0.001 ETH in wei
ReserveWei == [coef |-> 1, exp |-> 15]

\* the test of the sendable amount (main.py:72) has been made
SendDecided ==
    /\ pipe.pc \in {"done", "send_transaction"}
    /\ pipe.failed # "deposit_address"
    /\ \E i \in DOMAIN pipe.steps : pipe.steps[i] = "deposit_address"

\* C13: when the ETH balance read after the swap is at most the 0.001 ETH
\* reserve, main returns without reading a nonce, preparing, signing or
\* broadcasting a send transaction.
C13_NoSendWithoutSendableEth ==
    (SendDecided /\ DecSub(pipe.wei_balance, ReserveWei).coef <= 0)
        => /\ pipe.pc = "done"
           /\ pipe.result = Return("None")
           /\ pipe.nonce_reads = 0
           /\ pipe.signed = NoSigned
           /\ op # "main"
           /\ obs.signed = 0
           /\ obs.broadcast = 0

\* the balance is exactly the reserve: nothing is sent
C13_Witness ==
    /\ SendDecided
    /\ pipe.wei_balance = ReserveWei
    /\ pipe.eth_to_send = NoDec
    /\ pipe.pc = "done"
    /\ pipe.result = Return("None")
    /\ pipe.steps = <<"eth_balance", "deposit_address">>

\* C19: a call of send_transaction that has reached its poll loop has signed
\* once and broadcast once, whatever the number of polls, and what it signed
\* carries the nonce that prepare_transaction read, which it read once.
C19_SignedOnceBroadcastOnce ==
    (op = "main" /\ (pc \in {"polling", "sleeping"} \/ obs.lookups > 0))
        => /\ obs.signed = 1
           /\ obs.broadcast = 1
           /\ pipe.nonce_reads = 1
           /\ pipe.signed.nonce = pipe.nonce

\* confirmed at the fifth lookup, nonce 1
C19_Witness ==
    /\ SendEnded
    /\ result = Return("True")
    /\ obs.lookups = 5
    /\ obs.sleeps = 4
    /\ obs.signed = 1
    /\ obs.broadcast = 1
    /\ pipe.nonce = 1
    /\ pipe.signed.nonce = 1

\* C20: the value of the deposit transaction that was broadcast is the ETH
\* balance read after the swap minus the 0.001 ETH reserve, in wei.
C20_DepositValue ==
    (op = "main" /\ obs.broadcast = 1)
        => pipe.signed.value = DecSub(pipe.wei_balance, ReserveWei)


-----------------------------------------------------------------------------
(* Claims about the elapsed-time counter of the poll loop *)

\* C22: in the poll loop total_time grows by exactly poll_latency on each
\* not-found lookup and on each lookup that raises an unexpected exception, and
\* is left unchanged by a lookup that returns a receipt with status unset; the
\* timeout is raised only on a not-found lookup, so a call that saw no not-found
\* answer never ends by the timeout.
C22_ElapsedTimeFrame ==
    /\ [][pc = "polling"
            => /\ obs'.nNotFound # obs.nNotFound => total_time' = total_time + poll_latency
               /\ obs'.nExc # obs.nExc => total_time' = total_time + poll_latency
               /\ obs'.nUnset # obs.nUnset => total_time' = total_time]_vars
    /\ []((pc = "done" /\ result.kind = "raise" /\ result.line = 184)
            => last = "not_found" /\ obs.nNotFound > 0)


-----------------------------------------------------------------------------
(* Claims about the approval gate of the swap *)

\* prepare_transaction of the swap (odos_client.py:78) has read the nonce
SwapNonceRead ==
    /\ pipe.nonce_reads >= 1
    /\ \A i \in DOMAIN pipe.steps : pipe.steps[i] # "send"

\* C21: in swap with a non-native input token check_for_approved has returned
\* before the nonce of the swap transaction is read and before the swap
\* transaction is broadcast; when the gate raises, no swap transaction is
\* prepared or broadcast; with a native input token the gate is not invoked.
C21_GateBeforeSwap ==
    /\ (pipe.input = "token" /\ (SwapNonceRead \/ pipe.swap_broadcast = 1))
          => /\ pipe.gate = "returned"
             /\ gate.called
    /\ pipe.gate = "raised"
          => /\ pipe.input = "token"
             /\ pipe.nonce_reads = 0
             /\ pipe.swap_broadcast = 0
             /\ pipe.signed = NoSigned
             /\ pipe.pc = "done"
             /\ pipe.result.kind = "raise"
    /\ pipe.input = "native"
          => /\ pipe.gate = "not_invoked"
             /\ ~gate.called
             /\ op # "check_for_approved"

\* the allowance was sufficient: the gate returned False, then the nonce was read
C21_Witness ==
    /\ pipe.input = "token"
    /\ pipe.gate = "returned"
    /\ gate.called /\ gate.approved >= gate.amount
    /\ op = "check_for_approved" /\ result = Return("False")
    /\ pipe.nonce_reads = 1
    /\ pipe.failed = "swap"


-----------------------------------------------------------------------------
(* Claims about the requests of the exchange client *)

\* C23: for a GET request made through _make_request with a non-empty parameter
\* mapping, the query string appended to the request URL is the query string of
\* the signed message: the same keys in the same order with the same value text.
C23_UrlQueryIsSignedQuery ==
    req.called = "get_withdrawal_history"
        => req.out.url = BaseUrl \o req.out.headers.signature_path


\* withdraw got past its argument and credential checks and the assets GET was
\* answered
AssetsAnswered ==
    /\ req.called = "withdraw"
    /\ req.in.complete
    /\ req.in.credentials
    /\ req.in.getOk

\* the assets response has an entry for the requested coin
CoinListed == \E i \in DOMAIN req.in.assets.data : req.in.assets.data[i].coin = req.in.coin

\* C24: when the pre-flight balance response has a non-success code, has empty
\* data, or has no entry for the requested coin, the balance comparison is
\* skipped and the withdrawal POST is sent; the POST is held back only by an
\* entry for the coin whose available amount is below the requested amount.
C24_PostUnlessListedShort ==
    /\ (AssetsAnswered
          /\ (req.in.assets.code # "00000" \/ req.in.assets.data = <<>> \/ ~CoinListed))
        => /\ req.out.posts = 1
           /\ req.out.result.msg # <<"Insufficient balance">>
           /\ req.in.postOk => req.out.result = Return("response")
    /\ (AssetsAnswered /\ req.out.posts = 0)
        => /\ req.out.result.msg = <<"Insufficient balance">>
           /\ \E i \in DOMAIN req.in.assets.data :
                 /\ req.in.assets.data[i].coin = req.in.coin
                 /\ (IF req.in.assets.data[i].has_available
                     THEN req.in.assets.data[i].available
                     ELSE 0) < req.in.amount

\* success code, only the other coin is listed, with nothing available: the
\* POST is sent
C24_Witness ==
    /\ AssetsAnswered
    /\ req.in.assets.code = "00000"
    /\ Len(req.in.assets.data) = 1
    /\ ~CoinListed
    /\ req.in.assets.data[1].available = 0
    /\ req.in.amount = 3
    /\ req.out.posts = 1
    /\ req.out.result = Return("response")

====
